---- MODULE Spec2Model ----
(***************************************************************************)
(* Exam-period scheduling of scripts/calculate_exam_periods.py.            *)
(*                                                                         *)
(* A date is an integer, the number of days since the earliest date the    *)
(* datetime library represents (date.min, 0001-01-01, a Monday).  So       *)
(* weekday(d) = d % 7 with 0 = Monday, and timedelta arithmetic is integer *)
(* arithmetic that raises OverflowError below DateMin.                     *)
(***************************************************************************)
EXTENDS Integers, Sequences, FiniteSets, TLC

VARIABLES
    nh,          \* the holiday object: the set of dates that are keys of nh
    p_list,      \* the candidate: the block Mondays, in list order
    pos,         \* number of blocks of reversed(p_list) already resolved
    used_days,   \* the accumulating set of claimed days
    p_days_map,  \* Monday -> resolved exam days (a sorted list)
    hols_map,    \* Monday -> holiday hits of the block (dates, in hit order)
    call,        \* the latest get_exam_days call: its arguments and result
    is_winter,   \* the semester is a winter semester (4 blocks)
    l_start,     \* first day of the lecture period
    l_end,       \* last day of the lecture period
    cal,         \* the calendar: where Dec 24 and Easter Sunday fall
    stats,       \* the result of calculate_stats
    violations,  \* the result of get_violations
    buffer,      \* find_best_hip: the buffer the loop tries next
    best_hip,    \* find_best_hip: best_hip
    hip_score,   \* find_best_hip: best_score
    hip_start,   \* main: the HIP start of the semester (hip_periods[sem][0])
    idx,         \* main: number of candidates the loop has scored
    best_p_mons, \* main: best_p_mons
    best_score,  \* main: best_score
    events,      \* main: the (dtstart, dtend) of the calendar events of the
                 \* semester
    lecture_periods,   \* extrapolate_periods: the dict, as the list of its
                       \* <<semester name, <<start, end>>>> items
    hip_periods,       \* extrapolate_periods: the dict of the HIP periods
    proposal_boundary, \* extrapolate_periods: (year, is_winter)
    num_years,         \* extrapolate_periods: the horizon
    now_year,          \* datetime.now().year
    fill_pos,          \* number of passes of `for sem_name in lecture_periods`
    target_year,       \* extrapolate_periods: target_year
    curr_year,         \* extrapolate_periods: curr_year
    curr_winter,       \* extrapolate_periods: curr_winter
    calls,             \* number of calls of extrapolate_periods so far
    known,             \* the dicts before the first call
    first,             \* the dicts after the first call
    fn_args,     \* is_easter_week, get_ws_holiday_weeks: the arguments
    fn_result,   \* is_easter_week, get_ws_holiday_weeks: the value returned
    pc           \* "resolve" | "resolved" | "raised" | "stats" | "violations"
                 \* | "hip_loop" | "hip_done" | "main_loop" | "selected"
                 \* | "ext_fill" | "ext_loop" | "ext_done" | "emitted"
                 \* | "call" | "returned"

loop_vars == <<pos, used_days, p_days_map, hols_map, call>>
stats_vars == <<l_start, l_end, cal, stats, violations>>
hip_vars == <<buffer, best_hip, hip_score>>
main_vars == <<hip_start, idx, best_p_mons, best_score, events>>
ext_vars == <<lecture_periods, hip_periods, proposal_boundary, num_years,
              now_year, fill_pos, target_year, curr_year, curr_winter, calls,
              known, first>>
fn_vars == <<fn_args, fn_result>>
vars == <<nh, p_list, is_winter, loop_vars, stats_vars, hip_vars, main_vars,
          ext_vars, fn_vars, pc>>

-----------------------------------------------------------------------------
(* Bounds of the model *)

\* the dates drawn as inputs lie in the weeks 0 .. NumWeeks-1 after DateMin
NumWeeks == 4
\* longest run of consecutive weekdays that are all holidays
MaxRunLen == 6

(* Program constants *)

\* date.min: date arithmetic below it raises OverflowError
DateMin == 0
\* a block has five exam days: needed = 5 - len(actual_exam_days)
ExamDaysPerBlock == 5

-----------------------------------------------------------------------------
(* Helpers of the date type *)

weekday(d) == d % 7

Range(s) == {s[k] : k \in DOMAIN s}

Insert(x, s) ==
    LET k == Cardinality({j \in DOMAIN s : s[j] <= x})
    IN  SubSeq(s, 1, k) \o <<x>> \o SubSeq(s, k + 1, Len(s))

\* list.sort(): ascending, duplicates kept
RECURSIVE sort(_)
SortUnsorted(s) == s
sort(s) ==
    IF s = <<>> THEN <<>> ELSE Insert(Head(s), sort(Tail(s)))

-----------------------------------------------------------------------------
(* get_working_days_in_week and get_exam_days *)

get_working_days_in_week(monday) == [k \in 1..5 |-> monday + (k - 1)]

\* the week loop keeps d: it is no holiday and not claimed
week_loop_keeps(d, h, used) == d \notin h /\ d \notin used

\* the backward loop takes current: a weekday, no holiday, not claimed
BackLoopTakesIgnoringHolidays(current, h, used) ==
    weekday(current) < 5 /\ current \notin used
back_loop_takes(current, h, used) ==
    weekday(current) < 5 /\ current \notin h /\ current \notin used

\* the backward loop records current as a holiday hit
back_loop_hit(current, h) == weekday(current) < 5 /\ current \in h

NeededOneMore(actual) == ExamDaysPerBlock + 1 - Len(actual)
needed_days(actual) == ExamDaysPerBlock - Len(actual)

Raised == [raised |-> TRUE, days |-> <<>>, hols |-> <<>>]

\* while needed > 0: one pass of the body for `current`, then current -= 1 day,
\* which raises OverflowError when current is date.min
RECURSIVE search_backwards(_, _, _, _, _, _)
search_backwards(current, needed, actual, found, h, used) ==
    LET take    == back_loop_takes(current, h, used)
        actual2 == IF take THEN Append(actual, current) ELSE actual
        needed2 == IF take THEN needed - 1 ELSE needed
        found2  == IF back_loop_hit(current, h) THEN Append(found, current) ELSE found
    IN  IF current = DateMin THEN Raised
        ELSE IF needed2 > 0
             THEN search_backwards(current - 1, needed2, actual2, found2, h, used)
             ELSE [raised |-> FALSE, days |-> sort(actual2), hols |-> found2]

get_exam_days(monday, h, used) ==
    LET target_days == get_working_days_in_week(monday)
        actual == SelectSeq(target_days, LAMBDA d : week_loop_keeps(d, h, used))
        found  == SelectSeq(target_days, LAMBDA d : d \in h)
        needed == needed_days(actual)
    IN  IF needed > 0
        THEN IF monday = DateMin THEN Raised   \* monday - timedelta(days=1)
             ELSE search_backwards(monday - 1, needed, actual, found, h, used)
        ELSE [raised |-> FALSE, days |-> sort(actual), hols |-> found]

-----------------------------------------------------------------------------
(* The resolving loop of calculate_stats and main *)

\* reversed(p_list)
OrderForward(l) == l
reversed(l) == [k \in 1..Len(l) |-> l[Len(l) + 1 - k]]

\* used_days.update(days)
UpdateDropped(used, days) == used
update(used, days) == used \cup Range(days)

\* p_days_map[mon] = days
put(map, mon, days) ==
    [m \in DOMAIN map \cup {mon} |-> IF m = mon THEN days ELSE map[m]]

NoCall == [made |-> FALSE, monday |-> DateMin, used |-> {}, raised |-> FALSE,
           days |-> <<>>, hols |-> <<>>]

\* One pass of `for mon in reversed(p_list)`: the call returns
ResolveBlock ==
    /\ pc = "resolve"
    /\ pos < Len(p_list)
    /\ LET mon == reversed(p_list)[pos + 1]
           res == get_exam_days(mon, nh, used_days)
       IN  /\ ~res.raised
           /\ p_days_map' = put(p_days_map, mon, res.days)
           /\ hols_map' = put(hols_map, mon, res.hols)
           /\ used_days' = update(used_days, res.days)
           /\ call' = [made |-> TRUE, monday |-> mon, used |-> used_days,
                       raised |-> FALSE, days |-> res.days, hols |-> res.hols]
    /\ pos' = pos + 1
    /\ pc' = IF pos + 1 = Len(p_list) THEN "resolved" ELSE "resolve"
    /\ UNCHANGED <<nh, p_list, is_winter, stats_vars, hip_vars, main_vars, ext_vars, fn_vars>>

\* One pass of the loop: the call raises OverflowError, which nothing catches
ResolveRaises ==
    /\ pc = "resolve"
    /\ pos < Len(p_list)
    /\ LET mon == reversed(p_list)[pos + 1]
           res == get_exam_days(mon, nh, used_days)
       IN  /\ res.raised
           /\ call' = [made |-> TRUE, monday |-> mon, used |-> used_days,
                       raised |-> TRUE, days |-> <<>>, hols |-> <<>>]
    /\ pc' = "raised"
    /\ UNCHANGED <<nh, p_list, is_winter, pos, used_days, p_days_map, hols_map,
                   stats_vars, hip_vars, main_vars, ext_vars, fn_vars>>

-----------------------------------------------------------------------------
(* Inputs *)

Mondays == {DateMin + 7 * w : w \in 0..(NumWeeks - 1)}
Weekdays == {m + k : m \in Mondays, k \in 0..4}

\* the n-th weekday after weekday d (n >= 0)
RECURSIVE add_weekdays(_, _)
add_weekdays(d, n) ==
    IF n = 0 THEN d
    ELSE add_weekdays(IF weekday(d) = 4 THEN d + 3 ELSE d + 1, n - 1)

\* a run of n consecutive weekdays from d, cut at the end of the window
Run(d, n) == {add_weekdays(d, k) : k \in 0..(n - 1)} \cap Weekdays

\* Holiday sets: one run of consecutive weekdays (Dec 24..26, Good Friday and
\* Easter Monday, ...) and at most one more holiday
HolidaySets ==
    {{}} \cup {Run(d, n) \cup x : d \in Weekdays, n \in 1..MaxRunLen,
                                  x \in {{}} \cup {{e} : e \in Weekdays}}

\* strictly increasing lists of 1..4 block Mondays
IsIncreasing(l) == \A a, b \in DOMAIN l : a < b => l[a] < l[b]
BlockLists ==
    {l \in UNION {[1..n -> Mondays] : n \in 1..4} : IsIncreasing(l)}

-----------------------------------------------------------------------------
(* The calendar.  cal.dec24 is the first Dec 24 and cal.easter the first      *)
(* Easter Sunday among the dates of the model; a year has 365 days (the      *)
(* dates of the model hold no Feb 29).                                       *)

\* a date beyond every date of the model
FarDate == DateMin + 700000

NoCalendar == [dec24 |-> FarDate, easter |-> FarDate + 6]

DaysPerYear == 365

\* the distance of d from the Dec 24 of its season (Dec 1 .. Nov 30)
from_dec24(d, c) ==
    IF d >= c.dec24 - 23 THEN ((d - c.dec24 + 23) % DaysPerYear) - 23
    ELSE DaysPerYear

\* d.month: December and January; 0 is any other month
month(d, c) ==
    IF from_dec24(d, c) \in -23..7 THEN 12
    ELSE IF from_dec24(d, c) \in 8..38 THEN 1
    ELSE 0

\* d.day, within December and January
day(d, c) ==
    IF from_dec24(d, c) \in -23..7 THEN 24 + from_dec24(d, c)
    ELSE IF from_dec24(d, c) \in 8..38 THEN from_dec24(d, c) - 7
    ELSE 0

\* d.year, counted from the year of cal.dec24
year(d, c) ==
    IF d >= c.dec24 + 8 THEN 1 + (d - c.dec24 - 8) \div DaysPerYear ELSE 0

\* easter.easter(y): cal.easter in its own year; the Easter Sundays of the
\* other years lie beyond the dates of the model
easter(y, c) == IF y = year(c.easter, c) THEN c.easter ELSE FarDate + 6 + 700 * y

IsEasterWeekOfSunday(monday, c) ==
    LET easter_day == easter(year(monday, c), c)
        em_monday == easter_day - weekday(easter_day)
    IN  monday = em_monday
is_easter_week(monday, c) ==
    LET easter_monday == easter(year(monday, c), c) + 1
        em_monday == easter_monday - weekday(easter_monday)
    IN  monday = em_monday

-----------------------------------------------------------------------------
(* calculate_stats after its resolving loop, and get_violations *)

Max(S) == CHOOSE x \in S : \A y \in S : y <= x
Min(S) == CHOOSE x \in S : \A y \in S : x <= y

week_days(monday) == {monday + k : k \in 0..4}

IsChristmasOnly24(monday, c) ==
    \E d \in week_days(monday) : month(d, c) = 12 /\ day(d, c) = 24
is_christmas(monday, c) ==
    \E d \in week_days(monday) : month(d, c) = 12 /\ day(d, c) \in {24, 25, 26}

is_new_year(monday, c) ==
    \E d \in week_days(monday) : month(d, c) = 1 /\ day(d, c) = 1

IsFullIgnoringLecturePeriod(monday, all_exam_days, ls, le, c) ==
    /\ ~(\E d \in week_days(monday) : d \in all_exam_days)
    /\ ~(is_christmas(monday, c) \/ is_new_year(monday, c))
is_full_lecture_week(monday, all_exam_days, ls, le, c) ==
    /\ ~(\E d \in week_days(monday) : d \in all_exam_days)
    /\ ~(is_christmas(monday, c) \/ is_new_year(monday, c))
    /\ \E d \in week_days(monday) : ls <= d /\ d <= le

\* while curr <= last: count the full lecture weeks, curr += 7 days; the
\* loop visits curr, curr + 7, ... up to last
count_weeks(curr, last, all_exam_days, ls, le, c) ==
    IF curr <= last
    THEN Cardinality({k \in 0..((last - curr) \div 7) :
             is_full_lecture_week(curr + 7 * k, all_exam_days, ls, le, c)})
    ELSE 0

monday_of(d) == d - weekday(d)

\* curr = d + 1 day; if curr.weekday() != 0: curr += 7 - curr.weekday()
next_monday_after(d) ==
    LET curr == d + 1
    IN  IF weekday(curr) # 0 THEN curr + (7 - weekday(curr)) ELSE curr

\* the start of the w_after walk: from the first resolved day of the HIP block
w_after_start(p2_days) == next_monday_after(Min(p2_days))

\* the block that ends the first block group
p1_end_mon(l, winter) == IF winter THEN l[2] ELSE l[1]

calculate_stats(l, winter, ls, le, c, days_map, all_exam_days) ==
    LET p1_max_day == Max(Range(days_map[p1_end_mon(l, winter)]))
        p2_mon     == l[Len(l) - 1]
        p2_min_day == Min(Range(days_map[p2_mon]))
        p3_mon     == l[Len(l)]
        p3_min_day == Min(Range(days_map[p3_mon]))
    IN  [lecture_weeks |->
             count_weeks(monday_of(ls), le, all_exam_days, ls, le, c),
         w_before |->
             count_weeks(next_monday_after(p1_max_day), monday_of(p2_min_day) - 1,
                         all_exam_days, ls, le, c),
         w_after |->
             count_weeks(w_after_start(Range(days_map[p2_mon])),
                         monday_of(p3_min_day) - 1, all_exam_days, ls, le, c)]

NoStats == [lecture_weeks |-> 0, w_before |-> 0, w_after |-> 0]

\* the least number of lecture weeks and of buffer weeks
MinLectureWeeks == 13
MinBufferWeeks == 7

\* a violation message: the rule and the count the message shows
GetViolationsWithoutEaster(st, l, c) ==
    (IF st.lecture_weeks < MinLectureWeeks
        THEN <<[rule |-> "Vorlesungswochen < 13", count |-> st.lecture_weeks]>>
        ELSE <<>>)
    \o (IF st.w_before < MinBufferWeeks
        THEN <<[rule |-> "Wochen vor HIP < 7", count |-> st.w_before]>>
        ELSE <<>>)
    \o (IF st.w_after < MinBufferWeeks
        THEN <<[rule |-> "Wochen nach HIP < 7", count |-> st.w_after]>>
        ELSE <<>>)
get_violations(st, l, c) ==
    (IF st.lecture_weeks < MinLectureWeeks
        THEN <<[rule |-> "Vorlesungswochen < 13", count |-> st.lecture_weeks]>>
        ELSE <<>>)
    \o (IF st.w_before < MinBufferWeeks
        THEN <<[rule |-> "Wochen vor HIP < 7", count |-> st.w_before]>>
        ELSE <<>>)
    \o (IF st.w_after < MinBufferWeeks
        THEN <<[rule |-> "Wochen nach HIP < 7", count |-> st.w_after]>>
        ELSE <<>>)
    \o (IF \E k \in DOMAIN l : is_easter_week(l[k], c)
        THEN <<[rule |-> "Pruefung in Osterwoche", count |-> 0]>>
        ELSE <<>>)

\* The lecture periods a candidate with these blocks comes from: main shifts
\* the first block against the week of l_start and puts the last block in the
\* week of l_end or the week after it.  Lectures start on the Monday of the
\* week before the first block, on the Wednesday of its week, or two weeks
\* after it.
LectureStarts(l) == {l[1] - 7, l[1] + 2, l[1] + 14}
LecturePeriods(l) ==
    {<<ls, le>> \in
        LectureStarts(l) \X {l[Len(l)] - 7 * t + 4 : t \in {0, 1}} : ls <= le}

\* The calendars: no Christmas in the period, Dec 24 on the Tuesday of the week
\* after the HIP week (a Christmas week, then a New Year week), or on the
\* Saturday of the week after the first block group (Dec 26 a Monday, Jan 1 a
\* Sunday)
Dec24Choices(l, winter) ==
    {FarDate, l[Len(l) - 1] + 7 + 1, p1_end_mon(l, winter) + 7 + 5}

\* Easter Sunday on the day before the HIP Monday, or a week later
EasterChoices(l) == {l[Len(l) - 1] - 1, l[Len(l) - 1] + 6}

\* calculate_stats after the loop, for a candidate of 3 (summer) or 4 blocks
ComputeStats ==
    /\ pc = "resolved"
    /\ Len(p_list) = (IF is_winter THEN 4 ELSE 3)
    /\ \E lp \in LecturePeriods(p_list), x \in Dec24Choices(p_list, is_winter) :
          /\ l_start' = lp[1]
          /\ l_end' = lp[2]
          /\ cal' = [cal EXCEPT !.dec24 = x]
          /\ stats' = calculate_stats(p_list, is_winter, lp[1], lp[2], cal',
                                      p_days_map, used_days)
    /\ pc' = "stats"
    /\ UNCHANGED <<nh, p_list, is_winter, loop_vars, violations, hip_vars,
                   main_vars, ext_vars, fn_vars>>

\* get_violations on the statistics of the candidate; Easter is where the
\* calendar puts it
GetViolations ==
    /\ pc = "stats"
    /\ \E e \in EasterChoices(p_list) :
          /\ cal' = [cal EXCEPT !.easter = e]
          /\ violations' = get_violations(stats, p_list, cal')
    /\ pc' = "violations"
    /\ UNCHANGED <<nh, p_list, is_winter, loop_vars, l_start, l_end, stats,
                   hip_vars, main_vars, ext_vars, fn_vars>>

\* the state on entry of the resolving loop
\* best_hip = None
None == DateMin - 1
\* best_score = 9999
ScoreSentinel == 9999
\* for buffer in range(6, 11)
FirstBuffer == 6
LastBuffer == 10

HipEntry ==
    /\ buffer = FirstBuffer
    /\ best_hip = None
    /\ hip_score = ScoreSentinel

\* best_p_mons = None
NoCandidate == <<>>

MainEntry ==
    /\ idx = 0
    /\ best_p_mons = NoCandidate
    /\ best_score = ScoreSentinel
    /\ events = <<>>

NoDicts == [lp |-> <<>>, hp |-> <<>>]

\* extrapolate_periods has not been called
ExtIdle ==
    /\ lecture_periods = <<>>
    /\ hip_periods = <<>>
    /\ proposal_boundary = <<0, FALSE>>
    /\ num_years = 0
    /\ now_year = 0
    /\ fill_pos = 0
    /\ target_year = 0
    /\ curr_year = 0
    /\ curr_winter = FALSE
    /\ calls = 0
    /\ known = NoDicts
    /\ first = NoDicts

\* no function has been called
NoArgs == <<>>
NoResult == "none"
FnIdle ==
    /\ fn_args = NoArgs
    /\ fn_result = NoResult

LoopEntry ==
    /\ HipEntry
    /\ hip_start = DateMin
    /\ MainEntry
    /\ ExtIdle
    /\ FnIdle
    /\ pos = 0
    /\ used_days = {}
    /\ p_days_map = <<>>
    /\ hols_map = <<>>
    /\ call = NoCall
    /\ l_start = DateMin
    /\ l_end = DateMin
    /\ cal = NoCalendar
    /\ stats = NoStats
    /\ violations = <<>>
    /\ pc = "resolve"

Init ==
    /\ nh \in HolidaySets
    /\ p_list \in BlockLists
    /\ is_winter = (Len(p_list) = 4)
    /\ LoopEntry

Next == ResolveBlock \/ ResolveRaises

Spec == Init /\ [][Next]_vars

\* The candidates scored by calculate_stats: the first block group in week 1
\* (two blocks in consecutive weeks in winter), then the HIP block and the
\* last block at these distances in weeks
BlockGaps == ({1, 2} \X {1, 2}) \cup {<<8, 8>>, <<8, 10>>}

Candidate(winter, g) ==
    LET p1 == IF winter THEN <<DateMin + 7, DateMin + 14>> ELSE <<DateMin + 7>>
        p2 == p1[Len(p1)] + 7 * g[1]
    IN  p1 \o <<p2, p2 + 7 * g[2]>>

\* one run of consecutive weekdays
HolidayRuns == {{}} \cup {Run(d, n) : d \in Weekdays, n \in 1..MaxRunLen}

InitStats ==
    /\ nh \in HolidayRuns
    /\ is_winter \in BOOLEAN
    /\ p_list \in {Candidate(is_winter, g) : g \in BlockGaps}
    /\ LoopEntry

NextStats == ResolveBlock \/ ResolveRaises \/ ComputeStats \/ GetViolations

SpecStats == InitStats /\ [][NextStats]_vars

-----------------------------------------------------------------------------
(* find_best_hip *)

Abs(x) == IF x < 0 THEN -x ELSE x

\* the resolving loop of calculate_stats as a whole: rl is what is left of
\* reversed(p_list)
RECURSIVE resolve_blocks(_, _, _, _)
resolve_blocks(rl, h, map, used) ==
    IF rl = <<>> THEN [raised |-> FALSE, days_map |-> map, used |-> used]
    ELSE LET res == get_exam_days(Head(rl), h, used)
         IN  IF res.raised
             THEN [raised |-> TRUE, days_map |-> map, used |-> used]
             ELSE resolve_blocks(Tail(rl), h, put(map, Head(rl), res.days),
                                 update(used, res.days))

\* calculate_stats(candidate, is_winter, l_start, l_end, nh)
stats_of(l, winter, ls, le, c, h) ==
    LET r == resolve_blocks(reversed(l), h, <<>>, {})
    IN  [raised |-> r.raised,
         st |-> IF r.raised THEN NoStats
                ELSE calculate_stats(l, winter, ls, le, c, r.days_map, r.used)]

\* [p1_mon + timedelta(weeks=i) for i in range(num)]
first_blocks(p1_mon, num) == [i \in 1..num |-> p1_mon + 7 * (i - 1)]

hip_mon_cand(ls, num_exams, b) == ls + 7 * (num_exams + b)

hip_candidate(ls, le, num_exams, b) ==
    first_blocks(monday_of(ls), num_exams)
        \o <<hip_mon_cand(ls, num_exams, b), monday_of(le)>>

\* the weight of a week of deviation from 7 buffer weeks
HipBufferWeight == 100

hip_score_of(st) ==
    (IF st.w_before # 7 THEN Abs(7 - st.w_before) * HipBufferWeight ELSE 0)
    + (IF st.w_after # 7 THEN Abs(7 - st.w_after) * HipBufferWeight ELSE 0)
    + Abs(st.w_before - st.w_after)

num_exams_of(winter) == IF winter THEN 2 ELSE 1

\* one pass of `for buffer in range(6, 11)`
TryBuffer ==
    /\ pc = "hip_loop"
    /\ LET cand == hip_candidate(l_start, l_end, num_exams_of(is_winter), buffer)
           r    == stats_of(cand, is_winter, l_start, l_end, cal, nh)
           score == hip_score_of(r.st)
       IN  /\ ~r.raised
           /\ p_list' = cand
           /\ stats' = r.st
           /\ IF score < hip_score
              THEN /\ hip_score' = score
                   /\ best_hip' = hip_mon_cand(l_start, num_exams_of(is_winter),
                                               buffer)
              ELSE UNCHANGED <<hip_score, best_hip>>
    /\ buffer' = buffer + 1
    /\ pc' = IF buffer = LastBuffer THEN "hip_done" ELSE "hip_loop"
    /\ UNCHANGED <<nh, is_winter, loop_vars, l_start, l_end, cal, violations,
                   main_vars, ext_vars, fn_vars>>

\* a pass in which get_exam_days raises OverflowError
TryBufferRaises ==
    /\ pc = "hip_loop"
    /\ LET cand == hip_candidate(l_start, l_end, num_exams_of(is_winter), buffer)
       IN  /\ resolve_blocks(reversed(cand), nh, <<>>, {}).raised
           /\ p_list' = cand
    /\ pc' = "raised"
    /\ UNCHANGED <<nh, is_winter, loop_vars, stats_vars, hip_vars, main_vars, ext_vars, fn_vars>>

\* The lecture periods find_best_hip is called with: 17 weeks + 4 days
\* (summer) and 19 weeks + 4 days (winter) as extrapolate_periods synthesizes
\* them, and, with no holiday or with the first lecture day a holiday, periods
\* of 119 and 120 weeks + 4 days
HipPeriodWeeks(ls, h) ==
    {17, 19} \cup (IF h \subseteq {ls} THEN {119, 120} ELSE {})

\* Dec 24 from the Monday of week 12 (summer) or of week 39 (winter)
DaysToDec24(winter) == IF winter THEN 92 ELSE 281

InitHip ==
    /\ nh \in HolidayRuns
    /\ is_winter \in BOOLEAN
    /\ l_start \in {DateMin, DateMin + 21}
    /\ l_end \in {l_start + 7 * w + 4 : w \in HipPeriodWeeks(l_start, nh)}
    /\ cal = [dec24 |-> l_start + DaysToDec24(is_winter), easter |-> FarDate + 6]
    /\ p_list = <<>>
    /\ pos = 0
    /\ used_days = {}
    /\ p_days_map = <<>>
    /\ hols_map = <<>>
    /\ call = NoCall
    /\ stats = NoStats
    /\ violations = <<>>
    /\ HipEntry
    /\ hip_start = DateMin
    /\ MainEntry
    /\ ExtIdle
    /\ FnIdle
    /\ pc = "hip_loop"

NextHip == TryBuffer \/ TryBufferRaises

SpecHip == InitHip /\ [][NextHip]_vars

-----------------------------------------------------------------------------
(* The Gregorian calendar of the datetime library, for extrapolate_periods *)

is_leap(y) == (y % 4 = 0 /\ y % 100 # 0) \/ y % 400 = 0

\* date(y, 1, 1)
jan1(y) ==
    DateMin + 365 * (y - 1) + ((y - 1) \div 4) - ((y - 1) \div 100)
        + ((y - 1) \div 400)

\* the days of the year before month m
days_before_month(y, m) ==
    <<0, 31, 59, 90, 120, 151, 181, 212, 243, 273, 304, 334>>[m]
        + (IF m > 2 /\ is_leap(y) THEN 1 ELSE 0)

\* date(y, m, d)
date(y, m, d) == jan1(y) + days_before_month(y, m) + (d - 1)

\* d.year, for the years of the model
ModelYears == 2020..2040
date_year(d) == CHOOSE y \in ModelYears : jan1(y) <= d /\ d < jan1(y + 1)

\* d.isocalendar()[1], for a date from January 4 on of its ISO year
iso_week(d) ==
    ((d - weekday(d)) - (date(date_year(d), 1, 4)
                           - weekday(date(date_year(d), 1, 4)))) \div 7 + 1

\* dateutil's easter.easter(y): Easter Sunday of the Western churches
easter_sunday(y) ==
    LET a == y % 19
        b == y \div 100
        c == y % 100
        d == b \div 4
        e == b % 4
        f == (b + 8) \div 25
        g == (b - f + 1) \div 3
        h == (19 * a + b - d - g + 15) % 30
        i == c \div 4
        k == c % 4
        l == (32 + 2 * e + 2 * i - h - k) % 7
        m == (a + 11 * h + 22 * l) \div 451
        n == h + l - 7 * m + 114
    IN  date(y, n \div 31, (n % 31) + 1)

\* holidays.Germany(state='NW', years=[y]): the public holidays of NRW
germany_nw(y) ==
    {date(y, 1, 1), easter_sunday(y) - 2, easter_sunday(y) + 1, date(y, 5, 1),
     easter_sunday(y) + 39, easter_sunday(y) + 50, easter_sunday(y) + 60,
     date(y, 10, 3), date(y, 11, 1), date(y, 12, 25), date(y, 12, 26)}

\* Rosenmontag, and Dec 24 and Dec 31 if they fall on a weekday
extra_holidays(y) ==
    {easter_sunday(y) - 48}
        \cup {d \in {date(y, 12, 24), date(y, 12, 31)} : weekday(d) < 5}

get_nrw_holidays(y) ==
    germany_nw(y) \cup germany_nw(y + 1)
        \cup extra_holidays(y) \cup extra_holidays(y + 1)

-----------------------------------------------------------------------------
(* The candidate loop of main *)

\* the P1 shifts range(-2, 3) and the P3 shifts of p3_options
P1Shifts == <<-2, -1, 0, 1, 2>>
P3Shifts == <<0, 1>>
NumCandidates == Len(P1Shifts) * Len(P3Shifts)

\* the shifts of the i-th candidate (i = 0, 1, ...) of
\* `for p1_opt in p1_options: for p3_opt in p3_options`
p1_shift(i) == P1Shifts[(i \div Len(P3Shifts)) + 1]
p3_shift(i) == P3Shifts[(i % Len(P3Shifts)) + 1]

MainCandidateShiftingHip(i, ls, le, hs, winter) ==
    first_blocks(monday_of(ls) + 7 * p1_shift(i), num_exams_of(winter))
        \o <<monday_of(hs) + 7 * p3_shift(i), monday_of(le) + 7 * p3_shift(i)>>
\* candidate = p1_opt + [p2_mon, p3_opt]
main_candidate(i, ls, le, hs, winter) ==
    first_blocks(monday_of(ls) + 7 * p1_shift(i), num_exams_of(winter))
        \o <<monday_of(hs), monday_of(le) + 7 * p3_shift(i)>>

\* the weights of the score
EasterPenalty == 1000
LectureWeeksPenalty == 500
BufferWeight == 50
GapPenalty == 1000

has_gap(cand, ls, winter) == cand[num_exams_of(winter)] < monday_of(ls) - 7

main_score(st, cand, ls, winter, c) ==
    (IF \E k \in DOMAIN cand : is_easter_week(cand[k], c)
        THEN EasterPenalty ELSE 0)
    + (IF st.lecture_weeks < 13 THEN LectureWeeksPenalty ELSE 0)
    + (IF st.w_before # 7 THEN Abs(7 - st.w_before) * BufferWeight ELSE 0)
    + (IF st.w_after # 7 THEN Abs(7 - st.w_after) * BufferWeight ELSE 0)
    + (IF has_gap(cand, ls, winter) THEN GapPenalty ELSE 0)

\* abs((p1_mon - cand[0]).days // 7) + abs((cand[-1] - p3_mon).days // 7)
shift_size(cand, ls, le) ==
    Abs((monday_of(ls) - cand[1]) \div 7)
    + Abs((cand[Len(cand)] - monday_of(le)) \div 7)

\* the candidate replaces best_p_mons: a lower score, or the same score and a
\* smaller shift
TakesOverOnLowerScoreOnly(score, cand, ls, le) == score < best_score
takes_over(score, cand, ls, le) ==
    \/ score < best_score
    \/ /\ score = best_score
       /\ shift_size(cand, ls, le) < shift_size(best_p_mons, ls, le)

\* `best_p_mons[0]` of the tie-break raises TypeError while best_p_mons is None
tie_break_raises(score) == score = best_score /\ best_p_mons = NoCandidate

\* one pass of the candidate loop
ScoreCandidate ==
    /\ pc = "main_loop"
    /\ LET cand  == main_candidate(idx, l_start, l_end, hip_start, is_winter)
           r     == stats_of(cand, is_winter, l_start, l_end, cal, nh)
           score == main_score(r.st, cand, l_start, is_winter, cal)
       IN  /\ ~r.raised
           /\ ~tie_break_raises(score)
           /\ p_list' = cand
           /\ stats' = r.st
           /\ violations' = get_violations(r.st, cand, cal)
           /\ IF takes_over(score, cand, l_start, l_end)
              THEN best_score' = score /\ best_p_mons' = cand
              ELSE UNCHANGED <<best_score, best_p_mons>>
    /\ idx' = idx + 1
    /\ pc' = IF idx + 1 = NumCandidates THEN "selected" ELSE "main_loop"
    /\ UNCHANGED <<nh, is_winter, loop_vars, l_start, l_end, cal, hip_vars,
                   hip_start, events, ext_vars, fn_vars>>

\* a pass that raises: OverflowError from get_exam_days, or TypeError from the
\* tie-break
ScoreCandidateRaises ==
    /\ pc = "main_loop"
    /\ LET cand == main_candidate(idx, l_start, l_end, hip_start, is_winter)
           r    == stats_of(cand, is_winter, l_start, l_end, cal, nh)
       IN  /\ \/ r.raised
              \/ tie_break_raises(main_score(r.st, cand, l_start, is_winter, cal))
           /\ p_list' = cand
    /\ pc' = "raised"
    /\ UNCHANGED <<nh, is_winter, loop_vars, stats_vars, hip_vars, main_vars, ext_vars, fn_vars>>

\* event.add('dtstart', start_date) and event.add('dtend', end_date + 1 day),
\* with start_date = min(days) and end_date = max(days) of the row
EventEndsOnLastDay(days) ==
    [dtstart |-> Min(Range(days)), dtend |-> Max(Range(days))]
event_of(days) ==
    [dtstart |-> Min(Range(days)), dtend |-> Max(Range(days)) + 1]

\* main after the loop, for the selected schedule: stats_best and v_best, the
\* final resolution in reverse into best_days_map (a dict keyed by the
\* Monday), the rows in the order of the blocks and their calendar events.
\* (No candidate that was scored raises in get_exam_days.)
EmitEvents ==
    /\ pc = "selected"
    /\ best_p_mons # NoCandidate
    /\ LET r == resolve_blocks(reversed(best_p_mons), nh, <<>>, {})
           st == calculate_stats(best_p_mons, is_winter, l_start, l_end, cal,
                                 r.days_map, r.used)
       IN  /\ ~r.raised
           /\ p_list' = best_p_mons
           /\ stats' = st
           /\ violations' = get_violations(st, best_p_mons, cal)
           /\ p_days_map' = r.days_map
           /\ used_days' = r.used
           /\ events' = [i \in DOMAIN best_p_mons |->
                            event_of(r.days_map[best_p_mons[i]])]
    /\ pc' = "emitted"
    /\ UNCHANGED <<nh, is_winter, pos, hols_map, call, l_start, l_end, cal,
                   hip_vars, hip_start, idx, best_p_mons, best_score, ext_vars,
                   fn_vars>>

\* The semesters main runs the loop for.  Lectures start on the Monday of
\* week 2; the lecture period has 17 (summer) or 19 (winter) weeks + 4 days,
\* or 14 weeks + 4 days.
MainLectureStart == DateMin + 14
MainPeriodWeeks(winter) == {IF winter THEN 19 ELSE 17, 14}

\* the HIP start by the fixed rule, or the Wednesday of the week after
MainHipStarts(ls, winter) ==
    {ls + 7 * (num_exams_of(winter) + 7), ls + 7 * (num_exams_of(winter) + 8) + 2}

\* no holiday, or a run of holidays around the first blocks
MainHolidays(ls) ==
    {{}} \cup {Run(d, n) : d \in {ls - 14, ls - 3, ls, ls + 7},
                          n \in {1, 3, MaxRunLen}}

\* Easter Monday on the first lecture day or a week before it, or no Easter
MainEasters(ls) == {ls - 1, ls - 8, FarDate + 6}

InitMain ==
    /\ nh \in MainHolidays(MainLectureStart)
    /\ is_winter \in BOOLEAN
    /\ l_start = MainLectureStart
    /\ l_end \in {l_start + 7 * w + 4 : w \in MainPeriodWeeks(is_winter)}
    /\ hip_start \in MainHipStarts(l_start, is_winter)
    /\ cal \in {[dec24 |-> l_start + DaysToDec24(is_winter), easter |-> e] :
                   e \in MainEasters(l_start)}
    /\ p_list = <<>>
    /\ pos = 0
    /\ used_days = {}
    /\ p_days_map = <<>>
    /\ hols_map = <<>>
    /\ call = NoCall
    /\ stats = NoStats
    /\ violations = <<>>
    /\ HipEntry
    /\ MainEntry
    /\ ExtIdle
    /\ FnIdle
    /\ pc = "main_loop"

NextMain == ScoreCandidate \/ ScoreCandidateRaises \/ EmitEvents

SpecMain == InitMain /\ [][NextMain]_vars

-----------------------------------------------------------------------------
(* extrapolate_periods *)

\* A semester name is the list of its words and numbers:
\* f"Sommersemester {y}" and f"Wintersemester {y}/{str(y+1)[2:]}"
summer_name(y) == <<"Sommersemester", y>>
WinterNameOfNextYear(y) == <<"Wintersemester", y + 1, (y + 2) % 100>>
winter_name(y) == <<"Wintersemester", y, (y + 1) % 100>>

\* sem_key: the first four-digit number of the name, and 'Winter' in name
sem_key(name) == <<name[2], name[1] = "Wintersemester">>

\* k1 <= k2 for tuples (year, is_winter), False < True
key_le(k1, k2) == k1[1] < k2[1] \/ (k1[1] = k2[1] /\ (k1[2] => k2[2]))

\* a dict: the list of its items <<key, value>> in insertion order
dict_keys(d) == {d[i][1] : i \in DOMAIN d}
DictHasAlways(d, k) == TRUE
DictHasNever(d, k) == FALSE
dict_has(d, k) == k \in dict_keys(d)
dict_get(d, k) == d[CHOOSE i \in DOMAIN d : d[i][1] = k][2]
dict_set(d, k, v) ==
    IF k \in dict_keys(d)
    THEN [i \in DOMAIN d |-> IF d[i][1] = k THEN <<k, v>> ELSE d[i]]
    ELSE Append(d, <<k, v>>)

\* the calendar of the year of d
cal_of(d) == [dec24 |-> date(date_year(d), 12, 24),
              easter |-> easter_sunday(date_year(d))]

\* the loop of find_best_hip from buffer b on
RECURSIVE hip_loop(_, _, _, _, _, _, _, _)
hip_loop(b, best, bs, ls, le, winter, num_exams, h) ==
    IF b > LastBuffer THEN [raised |-> FALSE, hip |-> best]
    ELSE LET r == stats_of(hip_candidate(ls, le, num_exams, b), winter, ls, le,
                           cal_of(ls), h)
             score == hip_score_of(r.st)
         IN  IF r.raised THEN [raised |-> TRUE, hip |-> None]
             ELSE IF score < bs
                  THEN hip_loop(b + 1, hip_mon_cand(ls, num_exams, b), score,
                                ls, le, winter, num_exams, h)
                  ELSE hip_loop(b + 1, best, bs, ls, le, winter, num_exams, h)

find_best_hip(ls, le, winter, num_exams, h) ==
    hip_loop(FirstBuffer, None, ScoreSentinel, ls, le, winter, num_exams, h)

\* (hip_mon, hip_mon + timedelta(days=4))
hip_period(h) == <<h, h + 4>>

\* the Monday of calendar week 12 (summer) or 39 (winter): from date(y, 3, 10)
\* or date(y, 9, 20) on, the first Monday of a week >= 12 or 39
first_monday_of_week(from, week) ==
    CHOOSE d \in from..(from + 28) :
        /\ iso_week(d) >= week /\ weekday(d) = 0
        /\ \A e \in from..(d - 1) : ~(iso_week(e) >= week /\ weekday(e) = 0)

SynthPeriodSummerLength(y, winter) ==
    LET start == first_monday_of_week(date(y, 9, 20), 39)
    IN  <<start, start + 7 * 17 + 4>>
synth_period(y, winter) ==
    IF winter
    THEN LET start == first_monday_of_week(date(y, 9, 20), 39)
         IN  <<start, start + 7 * 19 + 4>>
    ELSE LET start == first_monday_of_week(date(y, 3, 10), 12)
         IN  <<start, start + 7 * 17 + 4>>

\* largest horizon (num_years) of the calls of the model
MaxHorizonYears == 2
\* datetime.now().year; in 2032 the Monday of ISO week 39 is September 20
NowYears == {2024, 2026, 2031}

SS24 == summer_name(2024)
WS24 == winter_name(2024)
SS25 == summer_name(2025)
WS25 == winter_name(2025)

\* The dicts before the call: nothing known; the summer semester 2024 with its
\* HIP week; also the winter semester 2024/25, without HIP week; these two and
\* a summer semester 2025 of 15 weeks, all without HIP week, and the HIP week
\* of the winter semester 2025/26 known; a summer semester 2024 that ends in
\* July 2026; a summer semester 2024 that starts on the Tuesday after Easter
KnownDicts_lp ==
    <<<<SS24, <<date(2024, 3, 18), date(2024, 7, 12)>>>>,
      <<WS24, <<date(2024, 9, 23), date(2025, 2, 7)>>>>,
      <<SS25, <<date(2025, 3, 24), date(2025, 7, 4)>>>>,
      <<SS24, <<date(2024, 3, 18), date(2026, 7, 17)>>>>,
      <<SS24, <<date(2024, 4, 2), date(2024, 7, 12)>>>>>>
KnownDicts ==
    LET lpSS24 == KnownDicts_lp[1]
        lpWS24 == KnownDicts_lp[2]
        lpSS25 == KnownDicts_lp[3]
        lpLong == KnownDicts_lp[4]
        lpTue  == KnownDicts_lp[5]
        hpSS24 == <<SS24, <<date(2024, 5, 13), date(2024, 5, 17)>>>>
        hpWS25 == <<WS25, <<date(2025, 11, 17), date(2025, 11, 21)>>>>
    IN  {[lp |-> <<>>, hp |-> <<>>],
         [lp |-> <<lpSS24>>, hp |-> <<hpSS24>>],
         [lp |-> <<lpSS24, lpWS24>>, hp |-> <<hpSS24>>],
         [lp |-> <<lpSS24, lpWS24, lpSS25>>, hp |-> <<hpWS25>>],
         [lp |-> <<lpLong>>, hp |-> <<>>],
         [lp |-> <<lpTue>>, hp |-> <<>>]}

\* find_best_hip(l_start, l_end, is_winter, num_first_blocks, nh) with
\* nh = get_nrw_holidays(l_start.year), for the lecture periods of the model:
\* the known ones and those the loop can synthesize; evaluated once
ModelPeriods ==
    {<<KnownDicts_lp[i][2][1], KnownDicts_lp[i][2][2],
       KnownDicts_lp[i][1][1] = "Wintersemester">> : i \in DOMAIN KnownDicts_lp}
    \cup {<<synth_period(y, w)[1], synth_period(y, w)[2], w>> :
             y \in 2024..(Max(NowYears) + MaxHorizonYears + 1), w \in BOOLEAN}
best_hips ==
    [p \in ModelPeriods |->
        find_best_hip(p[1], p[2], p[3], num_exams_of(p[3]),
                      get_nrw_holidays(date_year(p[1])))]

\* hip_mon for a semester without HIP entry: the fixed rule up to the
\* boundary, find_best_hip after it
HipMonFixedRuleOnly(name, period, winter, boundary) ==
    [raised |-> FALSE, hip |-> period[1] + 7 * (num_exams_of(winter) + 7)]
hip_mon(name, period, winter, boundary) ==
    IF key_le(sem_key(name), boundary)
    THEN [raised |-> FALSE, hip |-> period[1] + 7 * (num_exams_of(winter) + 7)]
    ELSE best_hips[<<period[1], period[2], winter>>]

\* the largest key of the dict
last_key(d) ==
    CHOOSE k \in {sem_key(n) : n \in dict_keys(d)} :
        \A n \in dict_keys(d) : key_le(sem_key(n), k)

\* target_year = datetime.now().year + num_years
TargetFromLastKnown(now, n) ==
    (IF lecture_periods = <<>> THEN now ELSE last_key(lecture_periods)[1]) + n
target_year_of(now, n) == now + n

\* the year of the next semester: a summer semester follows in the next year
NextYearAlways(cy, cw) == cy + 1
next_year(cy, cw) == IF cw THEN cy + 1 ELSE cy

rest_vars == <<nh, p_list, is_winter, loop_vars, stats_vars, hip_vars, main_vars,
              fn_vars>>

\* one pass of `for sem_name in lecture_periods`
FillHip ==
    /\ pc = "ext_fill"
    /\ fill_pos < Len(lecture_periods)
    /\ LET name == lecture_periods[fill_pos + 1][1]
           period == lecture_periods[fill_pos + 1][2]
       IN  IF dict_has(hip_periods, name)
           THEN /\ fill_pos' = fill_pos + 1
                /\ UNCHANGED <<hip_periods, pc>>
           ELSE \E r \in {hip_mon(name, period, name[1] = "Wintersemester",
                                  proposal_boundary)} :
                    IF r.raised \/ r.hip = None   \* None + timedelta: TypeError
                    THEN pc' = "raised" /\ UNCHANGED <<hip_periods, fill_pos>>
                    ELSE /\ hip_periods' = dict_set(hip_periods, name,
                                                    hip_period(r.hip))
                         /\ fill_pos' = fill_pos + 1
                         /\ pc' = pc
    /\ UNCHANGED <<lecture_periods, proposal_boundary, num_years, now_year,
                   target_year, curr_year, curr_winter, calls, known, first,
                   rest_vars>>

\* all_sems, last_year, is_winter, target_year, curr_year, curr_winter
EnterLoop ==
    /\ pc = "ext_fill"
    /\ fill_pos = Len(lecture_periods)
    /\ IF lecture_periods = <<>>
       THEN curr_year' = now_year /\ curr_winter' = FALSE
       ELSE /\ curr_year' = last_key(lecture_periods)[1]
            /\ curr_winter' = last_key(lecture_periods)[2]
    /\ target_year' = target_year_of(now_year, num_years)
    /\ pc' = "ext_loop"
    /\ UNCHANGED <<lecture_periods, hip_periods, proposal_boundary, num_years,
                   now_year, fill_pos, calls, known, first, rest_vars>>

\* one pass of `while curr_year <= target_year`
SynthesizeSemester ==
    /\ pc = "ext_loop"
    /\ curr_year <= target_year
    /\ LET y == next_year(curr_year, curr_winter)
           w == ~curr_winter
       IN  \E name \in {IF w THEN winter_name(y) ELSE summer_name(y)} :
           \E lp \in {IF dict_has(lecture_periods, name) THEN lecture_periods
                      ELSE dict_set(lecture_periods, name, synth_period(y, w))} :
               /\ curr_year' = y
               /\ curr_winter' = w
               /\ lecture_periods' = lp
               /\ IF dict_has(hip_periods, name)
                  THEN UNCHANGED <<hip_periods, pc>>
                  ELSE \E r \in {hip_mon(name, dict_get(lp, name), w,
                                         proposal_boundary)} :
                       IF r.raised \/ r.hip = None
                       THEN pc' = "raised" /\ UNCHANGED hip_periods
                       ELSE /\ hip_periods' = dict_set(hip_periods, name,
                                                       hip_period(r.hip))
                            /\ pc' = pc
    /\ UNCHANGED <<proposal_boundary, num_years, now_year, fill_pos,
                   target_year, calls, known, first, rest_vars>>

\* the loop ends and extrapolate_periods returns
ExtReturn ==
    /\ pc = "ext_loop"
    /\ curr_year > target_year
    /\ pc' = "ext_done"
    /\ first' = IF calls = 1 THEN [lp |-> lecture_periods, hp |-> hip_periods]
                ELSE first
    /\ UNCHANGED <<lecture_periods, hip_periods, proposal_boundary, num_years,
                   now_year, fill_pos, target_year, curr_year, curr_winter,
                   calls, known, rest_vars>>

\* a second call with the same boundary and horizon, in the same year
CallAgain ==
    /\ pc = "ext_done"
    /\ calls = 1
    /\ calls' = 2
    /\ fill_pos' = 0
    /\ pc' = "ext_fill"
    /\ UNCHANGED <<lecture_periods, hip_periods, proposal_boundary, num_years,
                   now_year, target_year, curr_year, curr_winter, known, first,
                   rest_vars>>

Boundaries == {<<0, FALSE>>, <<2024, FALSE>>, <<2024, TRUE>>, <<2026, TRUE>>}

InitExt ==
    /\ known \in KnownDicts
    /\ lecture_periods = known.lp
    /\ hip_periods = known.hp
    /\ proposal_boundary \in Boundaries
    /\ num_years \in 0..MaxHorizonYears
    /\ now_year \in NowYears
    /\ fill_pos = 0
    /\ target_year = 0
    /\ curr_year = 0
    /\ curr_winter = FALSE
    /\ calls = 1
    /\ first = NoDicts
    /\ nh = {}
    /\ p_list = <<>>
    /\ is_winter = FALSE
    /\ pos = 0
    /\ used_days = {}
    /\ p_days_map = <<>>
    /\ hols_map = <<>>
    /\ call = NoCall
    /\ l_start = DateMin
    /\ l_end = DateMin
    /\ cal = NoCalendar
    /\ stats = NoStats
    /\ violations = <<>>
    /\ HipEntry
    /\ hip_start = DateMin
    /\ MainEntry
    /\ FnIdle
    /\ pc = "ext_fill"

NextExt ==
    FillHip \/ EnterLoop \/ SynthesizeSemester \/ ExtReturn \/ CallAgain

SpecExt == InitExt /\ [][NextExt]_vars

\* every loop pass that can be taken is taken
SpecExtFair == SpecExt /\ WF_vars(NextExt)

-----------------------------------------------------------------------------
(* is_easter_week and get_ws_holiday_weeks, called on their own *)

\* the state outside the called function
FnEntry ==
    /\ nh = {}
    /\ p_list = <<>>
    /\ is_winter = FALSE
    /\ pos = 0
    /\ used_days = {}
    /\ p_days_map = <<>>
    /\ hols_map = <<>>
    /\ call = NoCall
    /\ l_start = DateMin
    /\ l_end = DateMin
    /\ stats = NoStats
    /\ violations = <<>>
    /\ HipEntry
    /\ hip_start = DateMin
    /\ MainEntry
    /\ ExtIdle
    /\ fn_result = NoResult
    /\ pc = "call"

fn_frame == <<nh, p_list, is_winter, loop_vars, stats_vars, hip_vars, main_vars,
              ext_vars, fn_args>>

\* the Mondays of the years 2024 .. 2027
EasterYears == 2024..2027
MondaysOfYears ==
    {d \in date(Min(EasterYears), 1, 1)..date(Max(EasterYears), 12, 31) :
        weekday(d) = 0}

\* is_easter_week(monday)
IsEasterWeek ==
    /\ pc = "call"
    /\ fn_result' = is_easter_week(fn_args[1], cal)
    /\ pc' = "returned"
    /\ UNCHANGED fn_frame

InitEaster ==
    /\ fn_args \in {<<m>> : m \in MondaysOfYears}
    /\ cal = cal_of(fn_args[1])
    /\ FnEntry

NextEaster == IsEasterWeek

SpecEaster == InitEaster /\ [][NextEaster]_vars

\* while current <= p3_mon: count the weeks whose Monday .. Friday hold
\* Dec 24, 25 or 26 or Jan 1; current += 7 days
GetWsHolidayWeeksBeforeEnd(p1_mon, p3_mon, c) ==
    IF p1_mon < p3_mon
    THEN Cardinality({k \in 0..((p3_mon - 1 - p1_mon) \div 7) :
             is_christmas(p1_mon + 7 * k, c) \/ is_new_year(p1_mon + 7 * k, c)})
    ELSE 0
get_ws_holiday_weeks(p1_mon, p3_mon, c) ==
    IF p1_mon <= p3_mon
    THEN Cardinality({k \in 0..((p3_mon - p1_mon) \div 7) :
             is_christmas(p1_mon + 7 * k, c) \/ is_new_year(p1_mon + 7 * k, c)})
    ELSE 0

\* longest range of the calls, in weeks
MaxRangeWeeks == 4
\* the winters of the calls: Dec 24 falls on each day of the week
WinterYears == 2022..2029

\* get_ws_holiday_weeks(p1_mon, p3_mon)
GetWsHolidayWeeks ==
    /\ pc = "call"
    /\ fn_result' = get_ws_holiday_weeks(fn_args[1], fn_args[2], cal)
    /\ pc' = "returned"
    /\ UNCHANGED fn_frame

\* the range starts in one of the five weeks around Dec 24
InitWsWeeks ==
    /\ \E y \in WinterYears, i \in -2..2, j \in 0..MaxRangeWeeks :
          /\ cal = cal_of(date(y, 12, 24))
          /\ fn_args = <<monday_of(date(y, 12, 24)) + 7 * i,
                         monday_of(date(y, 12, 24)) + 7 * (i + j)>>
    /\ FnEntry

NextWsWeeks == GetWsHolidayWeeks

SpecWsWeeks == InitWsWeeks /\ [][NextWsWeeks]_vars

-----------------------------------------------------------------------------
(* Properties of the Exam-Day Resolver *)

Week(monday) == {monday + k : k \in 0..4}
Resolved == DOMAIN p_days_map
DaysOf(mon) == Range(p_days_map[mon])
Returned == call.made /\ ~call.raised
CallDays == Range(call.days)
CallFree(d) == d \notin nh /\ d \notin call.used
\* the weekdays before the call's monday that are neither holidays nor claimed
CallFreeBefore ==
    {d \in DateMin..(call.monday - 1) : weekday(d) < 5 /\ CallFree(d)}

\* C1: the exam-day sets resolved last-to-first with one accumulating claimed
\* set are pairwise disjoint: no date belongs to two blocks.
C1_PairwiseDisjoint ==
    \A a, b \in Resolved : a # b => DaysOf(a) \cap DaysOf(b) = {}

\* a later block has pulled a day out of an earlier block's week
C1_Witness ==
    /\ pc = "resolved"
    /\ \E a, b \in Resolved : a < b /\ DaysOf(b) \cap Week(a) # {}

\* C2: every date get_exam_days returns is neither a holiday nor a member of
\* used_days, for the days kept from the week and for the days pulled from
\* earlier weeks.
C2_NoHolidayNoClaimedDay ==
    Returned => CallDays \cap (nh \cup call.used) = {}

\* a call that found a holiday and a claimed day in its week, kept the other
\* days of the week and pulled days from before it, walking past a holiday
C2_Witness ==
    /\ Returned
    /\ Week(call.monday) \cap nh # {}
    /\ Week(call.monday) \cap call.used # {}
    /\ \E d \in CallDays : d >= call.monday
    /\ \E d \in CallDays : d < call.monday
          /\ (\E e \in nh : d < e /\ e < call.monday)

\* C3: get_exam_days returns exactly the free days of monday's week plus, when
\* k days of the week were removed, the k latest free weekdays before monday;
\* a week without holidays and claims gives Monday..Friday and no holiday hit;
\* a holiday Monday with a free preceding Friday gives that Friday instead.
C3_ExactDays ==
    Returned =>
        LET m    == call.monday
            kept == {d \in Week(m) : CallFree(d)}
            k    == 5 - Cardinality(kept)
            back == {d \in CallDays : d < m}
        IN  /\ Len(call.days) = Cardinality(CallDays)
            /\ {d \in CallDays : d >= m} = kept
            /\ Cardinality(back) = k
            /\ back \subseteq CallFreeBefore
            /\ \A d \in back, e \in CallFreeBefore \ back : e < d
            /\ (Week(m) \cap (nh \cup call.used) = {}
                    => CallDays = Week(m) /\ call.hols = <<>>)
            /\ (m \in nh /\ m - 3 \in CallFreeBefore
                    => m \notin CallDays /\ m - 3 \in CallDays)

\* the Monday is a holiday and the preceding Friday is taken instead
C3_Witness ==
    /\ Returned
    /\ call.monday \in nh
    /\ call.monday - 3 \in CallDays
    /\ Cardinality({d \in CallDays : d < call.monday}) >= 2

\* the days claimed by the blocks after block i, resolved last-to-first
RECURSIVE ClaimedAfter(_)
ClaimedAfter(i) ==
    IF i >= Len(p_list) THEN {}
    ELSE LET c == ClaimedAfter(i + 1)
         IN  c \cup Range(get_exam_days(p_list[i + 1], nh, c).days)

\* C4: a block's days depend only on the holidays and on the blocks after it;
\* resolving an earlier block changes no later block's days; an earlier block
\* whose Friday a later block's backfill has claimed excludes it and takes the
\* Friday of the week before instead (when that one is free).
C4_DependsOnLaterBlocksOnly ==
    /\ [](\A i \in 1..Len(p_list) :
              p_list[i] \in Resolved =>
                  /\ p_days_map[p_list[i]]
                        = get_exam_days(p_list[i], nh, ClaimedAfter(i)).days
                  /\ \A j \in 1..Len(p_list) :
                        LET fri == p_list[i] + 4
                        IN  (j > i /\ p_list[j] \in Resolved
                                   /\ fri \in DaysOf(p_list[j]))
                            => /\ fri \notin DaysOf(p_list[i])
                               /\ (/\ fri - 7 >= DateMin
                                   /\ fri - 7 \notin nh
                                   /\ fri - 7 \notin ClaimedAfter(i))
                                  => fri - 7 \in DaysOf(p_list[i]))
    /\ [][\A m \in Resolved :
              m \in DOMAIN p_days_map' /\ p_days_map'[m] = p_days_map[m]]_vars

\* P1b has taken the Friday of P1a's week and P1a the Friday of the week before
C4_Witness ==
    /\ pc = "resolved"
    /\ \E i \in 1..(Len(p_list) - 1) :
          /\ p_list[i + 1] = p_list[i] + 7
          /\ p_list[i] + 4 \in DaysOf(p_list[i + 1])
          /\ p_list[i] - 3 \in DaysOf(p_list[i])

\* Resolving in forward order (first block first), for comparison: the days
\* claimed by the blocks before block i, and the result of block i
RECURSIVE ForwardClaimedBefore(_)
ForwardClaimedBefore(i) ==
    IF i <= 1 THEN {}
    ELSE LET c == ForwardClaimedBefore(i - 1)
         IN  c \cup Range(get_exam_days(p_list[i - 1], nh, c).days)

ForwardResult(i) == get_exam_days(p_list[i], nh, ForwardClaimedBefore(i))

\* the last two blocks lie in adjacent weeks, the later week holds a holiday,
\* the Friday of the earlier week is no holiday, and both orders return
C5_Case ==
    /\ pc = "resolved"
    /\ Len(p_list) >= 2
    /\ p_list[Len(p_list)] = p_list[Len(p_list) - 1] + 7
    /\ Week(p_list[Len(p_list)]) \cap nh # {}
    /\ p_list[Len(p_list) - 1] + 4 \notin nh
    /\ \A i \in 1..Len(p_list) : ~ForwardResult(i).raised

\* C5: the last-to-first order is load-bearing: for two adjacent blocks with a
\* holiday in the later block's week, forward order gives another assignment,
\* in which the earlier block holds the day (the Friday of its week) that the
\* later block takes under last-to-first order.
C5_OrderIsLoadBearing ==
    C5_Case =>
        LET n   == Len(p_list)
            fri == p_list[n - 1] + 4
        IN  /\ fri \in DaysOf(p_list[n])
            /\ fri \in Range(ForwardResult(n - 1).days)
            /\ fri \notin Range(ForwardResult(n).days)
            /\ \E i \in 1..n : ForwardResult(i).days # p_days_map[p_list[i]]

C5_Witness == C5_Case /\ Len(p_list) = 2

\* C6: the backward search is bounded and, when no free weekday is left, the
\* call returns fewer than 5 exam days instead of raising.
C6_ReturnsInsteadOfRaising ==
    call.made => ~call.raised

\* C7: the returned exam-day list is sorted strictly ascending, has at most 5
\* dates, and every date is a weekday.
C7_SortedWeekdaysAtMostFive ==
    Returned =>
        /\ \A a, b \in DOMAIN call.days : a < b => call.days[a] < call.days[b]
        /\ Len(call.days) <= 5
        /\ \A d \in CallDays : weekday(d) < 5

\* a returned list whose backfilled days had to be moved to the front
C7_Witness ==
    /\ Returned
    /\ Len(call.days) = 5
    /\ call.days[1] < call.monday
    /\ call.days[5] >= call.monday

-----------------------------------------------------------------------------
(* Properties of the Schedule Statistics *)

HasStats == pc \in {"stats", "violations"}
P1End == IF is_winter THEN p_list[2] ELSE p_list[1]
Hip == p_list[Len(p_list) - 1]
P3 == p_list[Len(p_list)]

\* the Mondays of the weeks strictly between the weeks of Mondays a and b
MondaysBetween(a, b) == {m \in (a + 1)..(b - 1) : (m - a) % 7 = 0}
\* the Mondays a, a + 7, ... before b
MondaysFrom(a, b) == {m \in a..(b - 1) : (m - a) % 7 = 0}
FirstMondayAfter(d) == d + 7 - weekday(d)

\* the week holds Dec 24, 25 or 26 or Jan 1
HolidayWeek(m) ==
    Week(m) \cap {cal.dec24, cal.dec24 + 1, cal.dec24 + 2, cal.dec24 + 8} # {}
InLecturePeriod(m) == Week(m) \cap l_start..l_end # {}
AllExamDays == UNION {DaysOf(b) : b \in Resolved}
FullLectureWeek(m) ==
    /\ Week(m) \cap AllExamDays = {}
    /\ ~HolidayWeek(m)
    /\ InLecturePeriod(m)

\* neither the HIP week nor the P3 week contains a holiday or a claimed day
C8_Case ==
    /\ HasStats
    /\ Week(P3) \cap nh = {}
    /\ Week(Hip) \cap (nh \cup DaysOf(P3)) = {}

\* C8 as stated: w_before and w_after are the numbers of weeks strictly between
\* the blocks, each reduced by the Christmas/New-Year weeks in between.
C8_WeeksBetweenLessHolidayWeeks ==
    C8_Case =>
        /\ stats.w_before =
              Cardinality(MondaysBetween(P1End, Hip))
              - Cardinality({m \in MondaysBetween(P1End, Hip) : HolidayWeek(m)})
        /\ stats.w_after =
              Cardinality(MondaysBetween(Hip, P3))
              - Cardinality({m \in MondaysBetween(Hip, P3) : HolidayWeek(m)})

\* 8-week spacing P1 -> HIP -> P3 (10 weeks HIP -> P3 across two holiday weeks)
\* with all the weeks in between inside the lecture period
C8_Spaced ==
    /\ Hip = P1End + 56
    /\ \A m \in MondaysBetween(P1End, P3) : InLecturePeriod(m)
    /\ \A m \in MondaysBetween(P1End, Hip) : ~HolidayWeek(m)
    /\ \/ P3 = Hip + 56 /\ \A m \in MondaysBetween(Hip, P3) : ~HolidayWeek(m)
       \/ /\ P3 = Hip + 70
          /\ Cardinality({m \in MondaysBetween(Hip, P3) : HolidayWeek(m)}) = 2

\* C8 (amended): when moreover the week of the last first-group block has a
\* weekday that is no holiday, w_before and w_after are the numbers of weeks
\* strictly between the blocks that overlap the lecture period and are no
\* Christmas/New-Year weeks; so 8-week spacing inside the lecture period gives
\* 7 and 7, and no violation unless a block lies in Easter week.
C8_WeeksBetweenInLecturePeriod ==
    (C8_Case /\ ~(Week(P1End) \subseteq nh)) =>
        /\ stats.w_before =
              Cardinality({m \in MondaysBetween(P1End, Hip) :
                              InLecturePeriod(m) /\ ~HolidayWeek(m)})
        /\ stats.w_after =
              Cardinality({m \in MondaysBetween(Hip, P3) :
                              InLecturePeriod(m) /\ ~HolidayWeek(m)})
        /\ C8_Spaced =>
              /\ stats.w_before = 7
              /\ stats.w_after = 7
              /\ pc = "violations" =>
                    (violations = <<>>
                        <=> \A k \in DOMAIN p_list : p_list[k] # cal.easter + 1)

\* the winter schedule with 10 weeks HIP -> P3 across the two holiday weeks, a
\* holiday in the first block group, and an empty violation list
C8_Witness ==
    /\ pc = "violations"
    /\ C8_Case
    /\ C8_Spaced
    /\ is_winter
    /\ P3 = Hip + 70
    /\ Week(P1End) \cap nh # {}
    /\ DaysOf(P1End) \cap Week(P1End) # {}
    /\ stats.w_before = 7
    /\ stats.w_after = 7
    /\ violations = <<>>

\* C9: both buffers follow the same rule: the full lecture weeks among the
\* Mondays from the first Monday after the last resolved exam day of the
\* earlier block (first block group, resp. HIP) up to, but excluding, the
\* Monday of the week of the first resolved exam day of the later block.
C9_BothBuffersFromLastExamDay ==
    HasStats =>
        /\ stats.w_before =
              Cardinality({m \in MondaysFrom(FirstMondayAfter(Max(DaysOf(P1End))),
                                             monday_of(Min(DaysOf(Hip)))) :
                              FullLectureWeek(m)})
        /\ stats.w_after =
              Cardinality({m \in MondaysFrom(FirstMondayAfter(Max(DaysOf(Hip))),
                                             monday_of(Min(DaysOf(P3)))) :
                              FullLectureWeek(m)})

\* the Mondays of the period of the model
ModelMondays == {DateMin + 7 * w : w \in 0..(P3 \div 7 + 2)}

\* C10: a week is a full lecture week exactly when none of its weekdays is a
\* resolved exam day of any block, none is Dec 24/25/26 or Jan 1, and one of
\* them lies in [l_start, l_end] (other holidays do not matter); lecture_weeks
\* counts these weeks from the Monday of l_start's week through l_end.
C10_FullLectureWeeks ==
    HasStats =>
        /\ \A m \in ModelMondays :
              is_full_lecture_week(m, used_days, l_start, l_end, cal)
                  <=> FullLectureWeek(m)
        /\ stats.lecture_weeks =
              Cardinality({m \in MondaysFrom(monday_of(l_start), l_end + 1) :
                              FullLectureWeek(m)})

\* a counted week holds a public holiday; other weeks are left out for an exam
\* day, for Dec 26 alone, and for lying outside the lecture period
C10_Witness ==
    /\ HasStats
    /\ stats.lecture_weeks >= 2
    /\ \E m \in MondaysFrom(monday_of(l_start), l_end + 1) :
          FullLectureWeek(m) /\ Week(m) \cap nh # {}
    /\ \E m \in MondaysFrom(monday_of(l_start), l_end + 1) :
          Week(m) \cap AllExamDays # {}
    /\ \E m \in MondaysFrom(monday_of(l_start), l_end + 1) :
          Week(m) \cap AllExamDays = {}
          /\ Week(m) \cap {cal.dec24, cal.dec24 + 1, cal.dec24 + 2, cal.dec24 + 8}
                = {cal.dec24 + 2}
    /\ \E m \in ModelMondays :
          /\ Week(m) \cap AllExamDays = {}
          /\ ~HolidayWeek(m)
          /\ ~is_full_lecture_week(m, used_days, l_start, l_end, cal)

-----------------------------------------------------------------------------
(* Properties of get_violations *)

LectureWeekViolations ==
    {i \in DOMAIN violations : violations[i].rule = "Vorlesungswochen < 13"}

\* C11: get_violations reports a lecture-week violation exactly when
\* lecture_weeks < 13, with the actual count in the message; the list is empty
\* exactly when lecture_weeks >= 13, w_before >= 7, w_after >= 7 and no block
\* Monday is the Monday of Easter week; get_violations changes neither the
\* statistics nor the block list.
C11_ViolationsReported ==
    /\ [](pc = "violations" =>
            /\ LectureWeekViolations # {} <=> stats.lecture_weeks < 13
            /\ \A i \in LectureWeekViolations :
                  violations[i].count = stats.lecture_weeks
            /\ violations = <<>> <=>
                  /\ stats.lecture_weeks >= 13
                  /\ stats.w_before >= 7
                  /\ stats.w_after >= 7
                  /\ \A k \in DOMAIN p_list : p_list[k] # cal.easter + 1)
    /\ [][pc = "stats" => stats' = stats /\ p_list' = p_list]_vars

\* a schedule of 1..12 lecture weeks is reported first, with its count
C11_Witness ==
    /\ pc = "violations"
    /\ stats.lecture_weeks \in 1..12
    /\ violations[1] =
          [rule |-> "Vorlesungswochen < 13", count |-> stats.lecture_weeks]

-----------------------------------------------------------------------------
(* Properties of the Searches *)

\* C12: the search always returns a result: find_best_hip returns a date and
\* the candidate loop of main ends with a selected candidate, whatever the
\* scores of the candidates are.
C12_SearchReturnsResult ==
    /\ pc = "hip_done" => best_hip # None
    /\ pc = "selected" => best_p_mons # NoCandidate

CandidateIndices == 0..(NumCandidates - 1)
CandidateAt(i) == main_candidate(i, l_start, l_end, hip_start, is_winter)
StatsAt(i) == stats_of(CandidateAt(i), is_winter, l_start, l_end, cal, nh).st
\* the scores of the candidates of the semester
Scores ==
    [i \in CandidateIndices |->
        main_score(StatsAt(i), CandidateAt(i), l_start, is_winter, cal)]
\* |P1 shift| + |P3 shift|
TotalShift(i) == Abs(p1_shift(i)) + Abs(p3_shift(i))

\* C13: the selected schedule has the minimum score among the candidates of
\* the semester, and the smallest total shift among the candidates with that
\* score.
C13_MinimumScoreThenShift ==
    pc = "selected" =>
        LET sc == Scores
        IN  \E b \in CandidateIndices :
               /\ best_p_mons = CandidateAt(b)
               /\ best_score = sc[b]
               /\ \A i \in CandidateIndices :
                     /\ sc[b] <= sc[i]
                     /\ sc[i] = sc[b] => TotalShift(b) <= TotalShift(i)

\* the selected candidate took over from an earlier candidate of the same
\* score and a larger shift
C13_Witness ==
    /\ pc = "selected"
    /\ LET sc == Scores
       IN  \E b, i \in CandidateIndices :
              /\ best_p_mons = CandidateAt(b)
              /\ i < b
              /\ sc[i] = sc[b]
              /\ TotalShift(b) < TotalShift(i)

\* a correctness violation: a block in Easter week, or lecture_weeks < 13
Violating(i) ==
    \/ \E k \in DOMAIN CandidateAt(i) : CandidateAt(i)[k] = cal.easter + 1
    \/ StatsAt(i).lecture_weeks < 13

\* C14: a candidate with a correctness violation scores strictly higher than
\* a candidate without one, whatever their buffer deviations are.
C14_ViolationsDominate ==
    pc = "selected" =>
        LET sc == Scores
            bad == {i \in CandidateIndices : Violating(i)}
        IN  \A i \in bad, j \in CandidateIndices \ bad : sc[i] > sc[j]

\* a list of the shape of a candidate: the first block group, the Monday of
\* the week of the HIP start, P3
IsCandidateShape(l) ==
    /\ Len(l) = (IF is_winter THEN 4 ELSE 3)
    /\ \E s \in -2..2 : l[1] = l_start - weekday(l_start) + 7 * s
    /\ is_winter => l[2] = l[1] + 7
    /\ l[Len(l) - 1] = hip_start - weekday(hip_start)
    /\ \E t \in {0, 1} : l[Len(l)] = l_end - weekday(l_end) + 7 * t

\* C15: every candidate scored in main, and the selected schedule, is the
\* first block group (1 block in summer, 2 in consecutive weeks in winter),
\* the Monday of the week of the given HIP start, and P3: 3 Mondays in summer,
\* 4 in winter, the HIP block never shifted.
C15_CandidateShape ==
    (pc \in {"main_loop", "selected"} /\ idx > 0) =>
        /\ IsCandidateShape(p_list)
        /\ IsCandidateShape(best_p_mons)

\* a winter schedule with the first blocks shifted and a HIP that starts on a
\* Wednesday
C15_Witness ==
    /\ pc = "selected"
    /\ is_winter
    /\ weekday(hip_start) = 2
    /\ best_p_mons[1] # l_start
    /\ best_p_mons[3] = hip_start - 2

-----------------------------------------------------------------------------
(* Properties of extrapolate_periods *)

\* C16: a second call with the same boundary and horizon, in the same year,
\* adds no semester and changes no entry of lecture_periods or hip_periods.
C16_Idempotent ==
    calls = 2 => lecture_periods = first.lp /\ hip_periods = first.hp

\* the second call has returned, after a first call that added semesters and
\* HIP periods
C16_Witness ==
    /\ pc = "ext_done"
    /\ calls = 2
    /\ Len(first.lp) > Len(known.lp)
    /\ Len(first.hp) > Len(known.hp) + 1

\* C17: after extrapolate_periods returns, every semester that is a key of
\* lecture_periods also is a key of hip_periods.
C17_EverySemesterHasHip ==
    pc = "ext_done" => dict_keys(lecture_periods) \subseteq dict_keys(hip_periods)

\* known semesters without HIP period and synthesized semesters, all with a
\* HIP period after the call
C17_Witness ==
    /\ pc = "ext_done"
    /\ calls = 1
    /\ dict_keys(known.lp) \ dict_keys(known.hp) # {}
    /\ Len(lecture_periods) > Len(known.lp)
    /\ dict_keys(lecture_periods) \subseteq dict_keys(hip_periods)

\* the semester after the semester of key k
Successor(k) == IF k[2] THEN <<k[1] + 1, FALSE>> ELSE <<k[1], TRUE>>
RECURSIVE NthSuccessor(_, _)
NthSuccessor(k, n) == IF n = 0 THEN k ELSE Successor(NthSuccessor(k, n - 1))

\* the key of the latest known semester (without one, the summer of this year)
LatestKnown ==
    IF known.lp = <<>> THEN <<now_year, FALSE>>
    ELSE CHOOSE k \in {sem_key(n) : n \in dict_keys(known.lp)} :
            \A n \in dict_keys(known.lp) :
                sem_key(n)[1] < k[1]
                \/ (sem_key(n)[1] = k[1] /\ (sem_key(n)[2] => k[2]))

\* the names the call has added to lecture_periods, in the order of adding
Synthesized ==
    [i \in 1..(Len(lecture_periods) - Len(known.lp)) |->
        lecture_periods[Len(known.lp) + i][1]]

Alternating ==
    /\ \A i \in DOMAIN Synthesized :
          /\ sem_key(Synthesized[i]) = NthSuccessor(LatestKnown, i)
          /\ Synthesized[i][1] =
                (IF NthSuccessor(LatestKnown, i)[2] THEN "Wintersemester"
                                                    ELSE "Sommersemester")
    /\ \A y \in (LatestKnown[1])..(now_year + num_years), w \in BOOLEAN :
          (y > LatestKnown[1] \/ (w /\ ~LatestKnown[2]))
              => \E n \in dict_keys(lecture_periods) : sem_key(n) = <<y, w>>

\* C18: extrapolate_periods terminates, and the semesters it synthesizes
\* strictly alternate winter/summer with none skipped, starting with the
\* successor of the latest known semester and covering every semester up to
\* the horizon.
C18_TerminatesAlternating ==
    /\ [](pc = "ext_done" => Alternating)
    /\ <>(pc = "raised" \/ (pc = "ext_done" /\ calls = 2))

\* latest known Sommersemester 2024 and horizon 2028: Wintersemester 2024/25
\* ... Wintersemester 2028/29 are present
C18_Witness ==
    /\ pc = "ext_done"
    /\ dict_keys(known.lp) = {SS24}
    /\ now_year + num_years = 2028
    /\ \A y \in 2024..2028 : winter_name(y) \in dict_keys(lecture_periods)
    /\ \A y \in 2025..2028 : summer_name(y) \in dict_keys(lecture_periods)

\* C19: no synthesized semester has a year later than current year + num_years.
C19_WithinHorizon ==
    pc = "ext_done" =>
        \A i \in DOMAIN Synthesized :
            sem_key(Synthesized[i])[1] <= now_year + num_years

\* C20: a missing HIP entry of a semester at or before the proposal boundary
\* is set by the fixed rule HIP start = lecture start + (num_first_blocks + 7)
\* weeks (2 first blocks in winter, 1 in summer), that of a semester after the
\* boundary is the result of find_best_hip; HIP end = HIP start + 4 days.
C20_HipRule ==
    [][\A name \in dict_keys(hip_periods') \ dict_keys(hip_periods) :
       \A period \in {dict_get(lecture_periods', name)} :
       \A hip \in {dict_get(hip_periods', name)} :
       \A hols \in {get_nrw_holidays(date_year(period[1]))} :
          LET winter == name[1] = "Wintersemester"
              key    == sem_key(name)
              before == \/ key[1] < proposal_boundary[1]
                        \/ /\ key[1] = proposal_boundary[1]
                           /\ (key[2] => proposal_boundary[2])
          IN  /\ hip[2] = hip[1] + 4
              /\ before =>
                    hip[1] = period[1] + 7 * ((IF winter THEN 2 ELSE 1) + 7)
              /\ ~before =>
                    hip[1] = find_best_hip(period[1], period[2], winter,
                                 IF winter THEN 2 ELSE 1, hols).hip
      ]_vars

\* a HIP week by the fixed rule, and one found by find_best_hip that differs
\* from the fixed rule
C20_Witness ==
    /\ pc = "ext_done"
    /\ proposal_boundary = <<2024, FALSE>>
    /\ SS24 \in dict_keys(known.lp) \ dict_keys(known.hp)
    /\ dict_get(hip_periods, SS24)[1] = dict_get(lecture_periods, SS24)[1] + 56
    /\ SS25 \in dict_keys(known.lp)
    /\ dict_get(hip_periods, SS25)[1] # dict_get(lecture_periods, SS25)[1] + 56

\* the HIP periods the call has written
Written == dict_keys(hip_periods) \ dict_keys(known.hp)

\* C21: every HIP start that extrapolate_periods writes, by the fixed rule or
\* by find_best_hip, is a Monday, also for a known lecture period that does
\* not start on a Monday.
C21_HipStartIsMonday ==
    \A name \in Written : weekday(dict_get(hip_periods, name)[1]) = 0

\* C22: with empty lecture_periods and hip_periods extrapolate_periods does
\* not fail, and it synthesizes lecture and HIP periods from the current year
\* on: the first synthesized semester is the winter semester of this year.
C22_EmptyInput ==
    known = NoDicts =>
        /\ pc # "raised"
        /\ pc = "ext_done" =>
              /\ lecture_periods # <<>>
              /\ lecture_periods[1][1][1] = "Wintersemester"
              /\ sem_key(lecture_periods[1][1]) = <<now_year, TRUE>>
              /\ date_year(lecture_periods[1][2][1]) = now_year
              /\ hip_periods[1][1] = lecture_periods[1][1]

\* the call with empty dicts has returned with several semesters
C22_Witness ==
    /\ pc = "ext_done"
    /\ calls = 1
    /\ known = NoDicts
    /\ Len(lecture_periods) >= 2
    /\ Len(hip_periods) = Len(lecture_periods)

\* C23: a synthesized lecture period starts on the first Monday on or after
\* ISO week 12 (summer) or 39 (winter) of its year and ends 17 weeks and 4 days
\* (summer) or 19 weeks and 4 days (winter) later, on a Friday.
C23_SynthesizedPeriod ==
    \A i \in DOMAIN Synthesized :
        LET name   == Synthesized[i]
            period == dict_get(lecture_periods, name)
            winter == name[1] = "Wintersemester"
            week   == IF winter THEN 39 ELSE 12
            weeks  == IF winter THEN 19 ELSE 17
        IN  /\ weekday(period[1]) = 0
            /\ date_year(period[1]) = name[2]
            /\ iso_week(period[1]) >= week
            /\ date_year(period[1] - 7) = name[2]
            /\ iso_week(period[1] - 7) < week
            /\ period[2] = period[1] + 7 * weeks + 4
            /\ weekday(period[2]) = 4

\* synthesized summer and winter semesters, among them the winter semester
\* 2032/33, which starts on the anchor date September 20 itself
C23_Witness ==
    /\ pc = "ext_done"
    /\ \E i \in DOMAIN Synthesized :
          /\ Synthesized[i] = winter_name(2032)
          /\ dict_get(lecture_periods, Synthesized[i])[1] = date(2032, 9, 20)
    /\ \E i \in DOMAIN Synthesized : Synthesized[i][1] = "Sommersemester"

-----------------------------------------------------------------------------
(* The gap penalty of main *)

\* the score of candidate i without the gap check
ScoreWithoutGap(i) ==
    (IF \E k \in DOMAIN CandidateAt(i) : is_easter_week(CandidateAt(i)[k], cal)
        THEN EasterPenalty ELSE 0)
    + (IF StatsAt(i).lecture_weeks < 13 THEN LectureWeeksPenalty ELSE 0)
    + (IF StatsAt(i).w_before # 7
          THEN Abs(7 - StatsAt(i).w_before) * BufferWeight ELSE 0)
    + (IF StatsAt(i).w_after # 7
          THEN Abs(7 - StatsAt(i).w_after) * BufferWeight ELSE 0)

\* C28: a candidate receives the gap penalty exactly when the Monday of its
\* first block lies more than one week before the Monday of the week of the
\* lecture start, in summer and in winter semesters alike.
C28_GapPenaltyByFirstBlock ==
    pc = "selected" =>
        \A i \in CandidateIndices :
            (Scores[i] = ScoreWithoutGap(i) + GapPenalty)
                <=> (CandidateAt(i)[1] < monday_of(l_start) - 7)

-----------------------------------------------------------------------------
(* The frame of extrapolate_periods *)

\* the items of dict `before` are items of dict `after`
Kept(before, after) ==
    \A i \in DOMAIN before :
        /\ before[i][1] \in dict_keys(after)
        /\ dict_get(after, before[i][1]) = before[i][2]

\* C30: extrapolate_periods only adds entries: every (start, end) pair that is
\* in lecture_periods or hip_periods before the call is still there with the
\* same value after it, and no key is removed.
C30_OnlyAdds ==
    /\ Kept(known.lp, lecture_periods)
    /\ Kept(known.hp, hip_periods)

\* the call has returned with known and added entries in both dicts; the known
\* HIP period is not the one the call would compute
C30_Witness ==
    /\ pc = "ext_done"
    /\ calls = 1
    /\ known.lp # <<>> /\ Len(lecture_periods) > Len(known.lp)
    /\ known.hp # <<>> /\ Len(hip_periods) > Len(known.hp)
    /\ known.hp[1][1] \in dict_keys(lecture_periods)
    /\ known.hp[1][2][1] #
          dict_get(lecture_periods, known.hp[1][1])[1]
              + 7 * ((IF known.hp[1][1][1] = "Wintersemester" THEN 2 ELSE 1) + 7)

-----------------------------------------------------------------------------
(* The result of find_best_hip *)

Buffers == FirstBuffer..LastBuffer

\* the score of the candidate of buffer b
HipScoreAt(b) ==
    hip_score_of(stats_of(hip_candidate(l_start, l_end,
                                        num_exams_of(is_winter), b),
                          is_winter, l_start, l_end, cal, nh).st)

\* best_hip is the candidate of the smallest buffer of minimum score
SmallestBestBuffer ==
    \E b \in Buffers :
        /\ best_hip = l_start + 7 * (num_exams_of(is_winter) + b)
        /\ \A b2 \in Buffers :
              /\ HipScoreAt(b) <= HipScoreAt(b2)
              /\ HipScoreAt(b2) = HipScoreAt(b) => b <= b2

\* C27: find_best_hip returns lecture_start + (num_exams + b) weeks, where b
\* is the smallest buffer in 6..10 that attains the minimum of the score
\* 100*|7 - w_before| + 100*|7 - w_after| + |w_before - w_after|.
C27_SmallestBufferOfMinimumScore ==
    pc = "hip_done" => SmallestBestBuffer

-----------------------------------------------------------------------------
(* The order of the resolved blocks *)

\* C29: under last-to-first resolution of blocks with strictly increasing
\* Mondays every resolved exam day of an earlier block is strictly earlier
\* than every resolved exam day of each later block: the [first day, last day]
\* ranges of different blocks never overlap or interleave.
C29_BlocksInOrder ==
    \A a, b \in Resolved :
        a < b => \A x \in DaysOf(a), y \in DaysOf(b) : x < y

\* three blocks are resolved; the middle one shares its own week with the
\* last one and has itself pulled days out of the first block's week
C29_Witness ==
    /\ pc = "resolved"
    /\ \E a, b, c \in Resolved :
          /\ a < b /\ b < c
          /\ DaysOf(c) \cap Week(b) # {}
          /\ DaysOf(b) \cap Week(b) # {}
          /\ DaysOf(b) \cap Week(a) # {}

-----------------------------------------------------------------------------
(* The calendar events of main *)

\* the exam days of block i of list l, resolved after the blocks behind it
RECURSIVE BlockDays(_, _)
BlockDays(l, i) ==
    Range(get_exam_days(l[i], nh,
              UNION {BlockDays(l, j) : j \in (i + 1)..Len(l)}).days)

\* C25: for every block of the semester main emits exactly one calendar event,
\* whose dtstart is the earliest resolved exam day of the block and whose
\* dtend is the latest resolved exam day of the block plus one day.
C25_OneEventPerBlock ==
    pc = "emitted" =>
        /\ DOMAIN events = DOMAIN best_p_mons
        /\ \A i \in DOMAIN events :
              /\ events[i].dtstart = Min(BlockDays(best_p_mons, i))
              /\ events[i].dtend = Max(BlockDays(best_p_mons, i)) + 1

\* the four events of a winter semester, one of a block that starts before
\* its Monday and ends before its Friday
C25_Witness ==
    /\ pc = "emitted"
    /\ Len(events) = 4
    /\ \E i \in DOMAIN events :
          /\ events[i].dtstart < best_p_mons[i]
          /\ events[i].dtend < best_p_mons[i] + 5

-----------------------------------------------------------------------------
(* Properties of is_easter_week and get_ws_holiday_weeks *)

\* C24: is_easter_week(monday) is true exactly when monday is the Monday of
\* the week that contains Easter Monday of monday's year, that is when
\* monday = Easter Sunday + 1 day; the Monday seven days earlier is not Easter
\* week.
C24_EasterWeek ==
    pc = "returned" =>
        LET monday == fn_args[1]
            sunday == easter_sunday(date_year(monday))
        IN  /\ fn_result <=> (monday = sunday + 1)
            /\ monday = sunday + 1 - 7 => ~fn_result

\* the call for the Monday after Easter Sunday 2024 has returned True
C24_Witness ==
    /\ pc = "returned"
    /\ fn_args = <<date(2024, 4, 1)>>
    /\ fn_result = TRUE

\* the week of Monday m holds Dec 24, 25 or 26 of year y or Jan 1 of y + 1
HolidayWeekOf(m, y) ==
    {m + k : k \in 0..4}
        \cap {date(y, 12, 24), date(y, 12, 25), date(y, 12, 26),
              date(y + 1, 1, 1)} # {}

\* the Mondays start, start + 7, ... up to end
Steps(start, end) == {m \in start..end : (m - start) % 7 = 0}

\* C26: get_ws_holiday_weeks(start_monday, end_monday) is the number of weeks,
\* stepping by 7 days from start_monday to end_monday inclusive, whose Monday
\* .. Friday contain Dec 24, 25 or 26 or Jan 1; a range from before Christmas
\* week to after New Year week, with Christmas and New Year on weekdays of
\* different weeks, gives 2.
C26_HolidayWeeks ==
    pc = "returned" =>
        LET start == fn_args[1]
            end   == fn_args[2]
            y     == date_year(cal.dec24)
            xmas  == {monday_of(d) : d \in {e \in cal.dec24..(cal.dec24 + 2) :
                                              weekday(e) < 5}}
            jan1st == date(y + 1, 1, 1)
        IN  /\ fn_result =
                  Cardinality({m \in Steps(start, end) : HolidayWeekOf(m, y)})
            /\ ( /\ weekday(jan1st) < 5
                 /\ monday_of(jan1st) \notin xmas
                 /\ \A m \in xmas : start < m
                 /\ end > monday_of(jan1st) )
               => fn_result = 2

\* a range that ends with the New Year week itself and counts 2
C26_Witness ==
    /\ pc = "returned"
    /\ fn_args[2] = monday_of(cal.dec24 + 8)
    /\ weekday(cal.dec24 + 8) < 5
    /\ fn_result = 2

====
